---- MODULE Spec2Model ----
(***************************************************************************)
(* putconf: installing configuration files from a source tree into a       *)
(* target tree (install_to_target) and copying them back                   *)
(* (sync_from_target), after PutconfSource.__init__ has scanned the source  *)
(* (src/putconf/PutconfSource.py, src/putconf/__main__.py).                 *)
(*                                                                         *)
(* A Python str is a sequence of one-character strings, so that            *)
(* startswith, slicing, os.path.join and os.path.dirname are computed as   *)
(* the code computes them.  The filesystem is a function from canonical    *)
(* absolute paths to nodes; a file's data is the path at which the data    *)
(* was first stored, which makes every copy traceable.                     *)
(***************************************************************************)
EXTENDS Integers, Sequences, FiniteSets, TLC

VARIABLES
    fs,                 \* the filesystem: canonical path -> node
    fs0,                \* the filesystem when the first run started
    unreadable,         \* source directories os.scandir cannot read
    scan_rev,           \* os.scandir lists names ascending (FALSE) or descending
    file_list,          \* main: files, the FILES made relative to target
    sync_source,        \* args.sync_source
    dry_run,            \* args.dry_run
    ow_mode,            \* main: ow_mode, the policy of the command line
    pc,                 \* position of main()
    run,                \* number of the invocation of main()
    fs_prev,            \* the filesystem when the previous invocation ended
    has_explicit_files, \* PutconfSource.has_explicit_files
    src_files,          \* PutconfSource.src_files
    put_subdirs,        \* PutconfSource.put_subdirs
    explicit_subdirs,   \* PutconfSource.explicit_subdirs
    sync_new,           \* PutconfSource.sync_new
    scan_error,         \* an exception was raised inside _scan_contents
    dirs,               \* the directories the running handler creates, in order
    files,              \* the (source, relative) pairs the running handler copies
    idx,                \* index of the next entry of dirs / files
    overwrite,          \* install_to_target: the local overwrite
    prompted,           \* answers read by input() in this run
    mapped,             \* <<p, source path>> for every mapping computed so far
    scan_out,           \* result of the last direct call of _scan_dir
    is_remote,          \* __init__: is_remote
    gitref,             \* __init__: a gitref was given (--checkout)
    pull,               \* __init__: pull
    git_exe,            \* __init__: git_exe is not None
    tmp                 \* PutconfSource.tmp: "none", "live" or "removed"

vars == <<fs, fs0, unreadable, scan_rev, file_list, sync_source, dry_run,
          ow_mode, pc, run, fs_prev, has_explicit_files, src_files,
          put_subdirs, explicit_subdirs, sync_new, scan_error, dirs, files,
          idx, overwrite, prompted, mapped, scan_out, is_remote, gitref,
          pull, git_exe, tmp>>

\* what __init__ is given about git, and the temporary directory it makes
git_vars == <<is_remote, gitref, pull, git_exe, tmp>>

---------------------------------------------------------------------------
(* Bounds of the model.                                                    *)

\* longest FILES list of a full run
MaxFiles == 1
\* longest FILES list when only the scan is run
MaxScanFiles == 2
\* invalid answers given to the overwrite prompt in one run
MaxBad == 1
\* invocations of main() on the same source and target
MaxRuns == 2

---------------------------------------------------------------------------
(* class OverwriteMode(Enum)                                               *)

PROMPT == 1
ALL == 2
NONE == 3

---------------------------------------------------------------------------
(* Python str operations.                                                  *)

startswith(s, pre) ==
    Len(s) >= Len(pre) /\ SubSeq(s, 1, Len(pre)) = pre

\* s[1:]
slice1(s) == SubSeq(s, 2, Len(s))

\* the dot left out
_prepend_dot_missing(path) == path

_prepend_dot(path) == <<".">> \o path

RECURSIVE rfind_sep(_, _)
\* 1-based index of the last "/" among the first i characters of p, 0 if none
rfind_sep(p, i) ==
    IF i = 0 THEN 0
    ELSE IF p[i] = "/" THEN i ELSE rfind_sep(p, i - 1)

RECURSIVE rstrip_sep(_)
rstrip_sep(h) ==
    IF h # <<>> /\ h[Len(h)] = "/" THEN rstrip_sep(SubSeq(h, 1, Len(h) - 1))
    ELSE h

\* posixpath.join(a, b)
join(a, b) ==
    IF startswith(b, <<"/">>) THEN b
    ELSE IF a = <<>> \/ a[Len(a)] = "/" THEN a \o b
    ELSE a \o <<"/">> \o b

join3(a, b, c) == join(join(a, b), c)

\* posixpath.dirname(p)
dirname(p) ==
    LET head == SubSeq(p, 1, rfind_sep(p, Len(p)))
    IN  IF head # <<>> /\ (\E i \in 1..Len(head) : head[i] # "/")
        THEN rstrip_sep(head) ELSE head

\* posixpath.basename(p)
basename(p) == SubSeq(p, rfind_sep(p, Len(p)) + 1, Len(p))

RECURSIVE split_sep(_)
\* p.split("/")
split_sep(p) ==
    IF \A i \in 1..Len(p) : p[i] # "/" THEN <<p>>
    ELSE LET k == CHOOSE i \in 1..Len(p) :
                      p[i] = "/" /\ \A j \in 1..(i - 1) : p[j] # "/"
         IN  <<SubSeq(p, 1, k - 1)>> \o split_sep(SubSeq(p, k + 1, Len(p)))

---------------------------------------------------------------------------
(* The filesystem.                                                         *)

ROOT == <<"/">>
NOPATH == <<>>
DirNode == [kind |-> "dir", data |-> <<>>]
FileNode(d) == [kind |-> "file", data |-> d]

Child(cur, name) == IF cur = ROOT THEN ROOT \o name ELSE cur \o <<"/">> \o name
Parent(cur) == IF cur = ROOT THEN ROOT ELSE dirname(cur)

RECURSIVE walk(_, _, _)
\* Path resolution: the canonical path reached from directory cur through
\* the components comps; every component but the last must be a directory.
walk(f, cur, comps) ==
    IF comps = <<>> THEN cur
    ELSE IF cur \notin DOMAIN f \/ f[cur].kind # "dir" THEN NOPATH
    ELSE LET c == Head(comps)
         IN  IF c = <<>> \/ c = <<".">> THEN walk(f, cur, Tail(comps))
             ELSE IF c = <<".", ".">> THEN walk(f, Parent(cur), Tail(comps))
             ELSE walk(f, Child(cur, c), Tail(comps))

\* the canonical path an absolute path string denotes (NOPATH: it cannot be reached)
canon(f, p) ==
    IF startswith(p, <<"/">>) THEN walk(f, ROOT, split_sep(p)) ELSE NOPATH

exists(f, p) == canon(f, p) \in DOMAIN f
isdir(f, p) == exists(f, p) /\ f[canon(f, p)].kind = "dir"
isfile(f, p) == exists(f, p) /\ f[canon(f, p)].kind = "file"

Raise(f) == [ok |-> FALSE, fs |-> f]
Done(f) == [ok |-> TRUE, fs |-> f]

\* os.mkdir(p): the filesystem after it; ok is FALSE when it raises
os_mkdir(f, p) ==
    LET c == canon(f, p)
    IN  IF c = NOPATH \/ c \in DOMAIN f THEN Raise(f)
        ELSE Done((c :> DirNode) @@ f)

\* shutil.copy(src, dest): the filesystem after it; ok is FALSE when it raises
shutil_copy(f, src, dest) ==
    LET d == IF isdir(f, dest) THEN join(dest, basename(src)) ELSE dest
        c == canon(f, d)
    IN  IF ~isfile(f, src) \/ c = NOPATH \/ isdir(f, d) THEN Raise(f)
        ELSE Done((c :> FileNode(f[canon(f, src)].data)) @@ f)

\* the existence test left out: os.mkdir is called on whatever is there
_do_mkdir_unchecked(f, path, dry) ==
    IF ~dry THEN os_mkdir(f, path) ELSE Done(f)

\* _do_mkdir
_do_mkdir(f, path, dry) ==
    IF exists(f, path) THEN Done(f)
    ELSE IF ~dry THEN os_mkdir(f, path)
    ELSE Done(f)

\* dry_run not looked at
_do_copy_always(f, src, dest, dry) == shutil_copy(f, src, dest)

\* _do_copy
_do_copy(f, src, dest, dry) ==
    IF ~dry THEN shutil_copy(f, src, dest) ELSE Done(f)

\* the answers all and none decide the current file only
_prompt_to_overwrite_once(f, src, dest, dry, s) ==
    LET c == IF s \in {"y", "all"} THEN _do_copy(f, src, dest, FALSE) ELSE Done(f)
    IN  IF dry THEN [ok |-> TRUE, fs |-> f, res |-> PROMPT]
        ELSE [ok |-> c.ok, fs |-> c.fs, res |-> PROMPT]

\* _prompt_to_overwrite, s being the valid answer input() returns; res is the
\* returned OverwriteMode
_prompt_to_overwrite(f, src, dest, dry, s) ==
    LET ow == s \in {"y", "all"}
        res == IF s = "all" THEN ALL ELSE IF s = "none" THEN NONE ELSE PROMPT
        c == IF ow THEN _do_copy(f, src, dest, FALSE) ELSE Done(f)
    IN  IF dry THEN [ok |-> TRUE, fs |-> f, res |-> PROMPT]
        ELSE [ok |-> c.ok, fs |-> c.fs, res |-> res]

---------------------------------------------------------------------------
(* os.scandir and _scan_dir.                                               *)

Chars == <<".", "a", "b", "c", "d", "e", "f", "h", "i", "l", "o", "s", "t">>
Rank(ch) == CHOOSE i \in 1..Len(Chars) : Chars[i] = ch

RECURSIVE name_less(_, _)
name_less(a, b) ==
    IF a = <<>> THEN b # <<>>
    ELSE IF b = <<>> THEN FALSE
    ELSE IF a[1] = b[1] THEN name_less(Tail(a), Tail(b))
    ELSE Rank(a[1]) < Rank(b[1])

RECURSIVE sort_names(_, _)
\* the names of S in ascending order, or in descending order when rev
sort_names(S, rev) ==
    IF S = {} THEN <<>>
    ELSE LET m == CHOOSE x \in S : \A y \in S \ {x} :
                      IF rev THEN name_less(y, x) ELSE name_less(x, y)
         IN  <<m>> \o sort_names(S \ {m}, rev)

\* os.scandir(p): the entries of directory p in listing order; ok is FALSE
\* when the call raises (p is no directory, or it cannot be read)
scandir(f, p) ==
    LET c == canon(f, p)
        names == {basename(q) : q \in {r \in DOMAIN f : r # ROOT /\ Parent(r) = c}}
        listing == sort_names(names, scan_rev)
    IN  IF ~isdir(f, p) \/ c \in unreadable
        THEN [ok |-> FALSE, entries |-> <<>>]
        ELSE [ok |-> TRUE,
              entries |-> [i \in 1..Len(listing) |->
                  [name |-> listing[i],
                   is_dir |-> f[Child(c, listing[i])].kind = "dir"]]]

\* the paths join(d, x.name) of the listed entries that are directories
\* (want_dir) or not, in listing order
entries_of(entries, d, want_dir) ==
    LET Keep(x) == x.is_dir = want_dir
        kept == SelectSeq(entries, Keep)
    IN  [i \in 1..Len(kept) |-> join(d, kept[i].name)]

RECURSIVE scan_worklist(_, _, _, _, _)
\* the while loop of _scan_dir: subdirs[i] is scanned next
scan_worklist(f, rel_to, found, subdirs, i) ==
    IF i > Len(subdirs)
    THEN [ok |-> TRUE, files |-> found, subdirs |-> subdirs]
    ELSE LET d == subdirs[i]
             l == scandir(f, join(rel_to, d))
         IN  IF ~l.ok THEN [ok |-> FALSE, files |-> <<>>, subdirs |-> <<>>]
             ELSE scan_worklist(f, rel_to,
                                found \o entries_of(l.entries, d, FALSE),
                                subdirs \o entries_of(l.entries, d, TRUE),
                                i + 1)

\* _scan_dir(dir_path, rel_to): files and subdirs relative to rel_to; ok is
\* FALSE when an os.scandir raises
_scan_dir(f, dir_path, rel_to) ==
    LET l == scandir(f, join(rel_to, dir_path))
    IN  IF ~l.ok THEN [ok |-> FALSE, files |-> <<>>, subdirs |-> <<>>]
        ELSE scan_worklist(f, rel_to,
                           entries_of(l.entries, dir_path, FALSE),
                           entries_of(l.entries, dir_path, TRUE), 1)

---------------------------------------------------------------------------
(* PutconfSource: the scan of the source.                                  *)

\* PutconfSource.work_dir, a local source directory
work_dir == <<"/", "s">>
\* main: target
target == <<"/", "t">>
DOTFILES == <<".", "d", "o", "t", "f", "i", "l", "e", "s">>

\* reversed(parents) forgotten: the walk's own order is kept
reversed_forgotten(s) == s

reversed(s) == [i \in 1..Len(s) |-> s[Len(s) + 1 - i]]

RECURSIVE parents_of(_, _)
\* the list parents of the ancestor walk: d, dirname(d), ... up to the first
\* one that is empty or already in subdir_set
parents_of(d, subdir_set) ==
    IF Len(d) > 0 /\ d \notin subdir_set
    THEN <<d>> \o parents_of(dirname(d), subdir_set \cup {d})
    ELSE <<>>

seq_set(s) == {s[i] : i \in 1..Len(s)}

\* the existence test made first: a directory counts as a file
classify_exists_first(f, src_path) ==
    IF exists(f, src_path) THEN "src_files"
    ELSE IF isdir(f, src_path) THEN "explicit_subdirs"
    ELSE "sync_new"

\* _scan_from_list, lines 220-227: the list an entry of file_list goes to
classify(f, src_path) ==
    IF isdir(f, src_path) THEN "explicit_subdirs"
    ELSE IF exists(f, src_path) THEN "src_files"
    ELSE "sync_new"

\* _scan_from_list, lines 204-209: the source path of an entry of file_list
src_path_of(x) ==
    IF startswith(x, <<".">>) THEN join3(work_dir, DOTFILES, slice1(x))
    ELSE join(work_dir, x)

RECURSIVE scan_list_loop(_, _, _, _, _)
\* the for loop of _scan_from_list over file_list[i..]; st holds the four
\* lists, subdir_set and the mappings computed
scan_list_loop(f, list, i, st, subdir_set) ==
    IF i > Len(list) THEN st
    ELSE LET x == list[i]
             src_path == src_path_of(x)
             parents == parents_of(dirname(x), subdir_set)
             to == classify(f, src_path)
         IN  scan_list_loop(f, list, i + 1,
                 [put_subdirs |-> st.put_subdirs \o reversed(parents),
                  explicit_subdirs |->
                      IF to = "explicit_subdirs"
                      THEN Append(st.explicit_subdirs, x)
                      ELSE st.explicit_subdirs,
                  src_files |->
                      IF to = "src_files"
                      THEN Append(st.src_files, <<src_path, x>>)
                      ELSE st.src_files,
                  sync_new |->
                      IF to = "sync_new"
                      THEN Append(st.sync_new, <<src_path, x>>)
                      ELSE st.sync_new,
                  mapped |-> st.mapped \cup {<<x, src_path>>},
                  ok |-> TRUE],
                 subdir_set \cup seq_set(parents))

_scan_from_list(f, list) ==
    scan_list_loop(f, list, 1,
        [put_subdirs |-> <<>>, explicit_subdirs |-> <<>>, src_files |-> <<>>,
         sync_new |-> <<>>, mapped |-> {}, ok |-> TRUE], {})

RECURSIVE scan_all_subdirs(_, _, _, _, _)
\* _scan_all, lines 251-254: the loop over the top-level subdirs[i..]; an
\* exception of _scan_dir leaves the lists as they are at that moment
scan_all_subdirs(f, subdirs, i, fl, ds) ==
    IF i > Len(subdirs) THEN [ok |-> TRUE, src_files |-> fl, put_subdirs |-> ds]
    ELSE LET r == _scan_dir(f, subdirs[i], work_dir)
         IN  IF ~r.ok THEN [ok |-> FALSE, src_files |-> fl, put_subdirs |-> ds]
             ELSE scan_all_subdirs(f, subdirs, i + 1,
                      fl \o [k \in 1..Len(r.files) |->
                                 <<join(work_dir, r.files[k]), r.files[k]>>],
                      ds \o r.subdirs)

\* _scan_all, lines 241-248: the top-level entries that are neither
\* .dotfiles nor hidden, directories (want_dir) or files
top_entries(top, want_dir) ==
    LET Keep(x) == /\ ~(x.is_dir /\ x.name = DOTFILES)
                   /\ ~startswith(x.name, <<".">>)
                   /\ x.is_dir = want_dir
    IN  SelectSeq(top, Keep)

\* _scan_all, lines 256-260: the contents r of .dotfiles are added to the
\* lists a, with a dot prepended
scan_all_dotfiles(a, r, dotfile_dir) ==
    IF ~r.ok THEN [a EXCEPT !.ok = FALSE]
    ELSE [ok |-> TRUE,
          src_files |-> a.src_files \o
              [k \in 1..Len(r.files) |->
                  <<join(dotfile_dir, r.files[k]), _prepend_dot(r.files[k])>>],
          put_subdirs |-> a.put_subdirs \o
              [k \in 1..Len(r.subdirs) |-> _prepend_dot(r.subdirs[k])]]

\* _scan_all, lines 250-260, td and tf being the top-level directories and
\* files found by lines 241-248
scan_all_rest(f, top, td, tf) ==
    LET subdirs == [k \in 1..Len(td) |-> td[k].name]
        top_files == [k \in 1..Len(tf) |->
                         <<join(work_dir, tf[k].name), tf[k].name>>]
        a == scan_all_subdirs(f, subdirs, 1, top_files, subdirs)
    IN  IF a.ok /\ \E k \in 1..Len(top) :
                       top[k].is_dir /\ top[k].name = DOTFILES
        THEN scan_all_dotfiles(a, _scan_dir(f, <<>>, join(work_dir, DOTFILES)),
                               join(work_dir, DOTFILES))
        ELSE a

\* the lists of a full scan: explicit_subdirs and sync_new stay empty
scan_all_lists(r) ==
    r @@ [explicit_subdirs |-> <<>>, sync_new |-> <<>>, mapped |-> {}]

\* _scan_all.  os.scandir(src) itself does not raise: __init__ has checked
\* that the source is a readable directory (lines 165-170).
_scan_all(f) ==
    scan_all_lists(
        scan_all_rest(f, scandir(f, work_dir).entries,
                      top_entries(scandir(f, work_dir).entries, TRUE),
                      top_entries(scandir(f, work_dir).entries, FALSE)))

\* _scan_contents
_scan_contents(f, list) ==
    IF Len(list) = 0 THEN _scan_all(f) ELSE _scan_from_list(f, list)

\* PutconfSource._path_in_src
_path_in_src(rel_to_target) ==
    IF startswith(rel_to_target, <<>>)
    THEN join3(work_dir, DOTFILES, slice1(rel_to_target))
    ELSE join(work_dir, rel_to_target)

---------------------------------------------------------------------------
(* install_to_target and sync_from_target: the scans that precede the      *)
(* loops over directories and files.                                       *)

RECURSIVE install_expand(_, _, _, _)
\* install_to_target, lines 266-274: extra_dirs and extra_files of
\* explicit_subdirs[i..]; ok is FALSE when _scan_dir raises
install_expand(f, subs, i, st) ==
    IF i > Len(subs) THEN st
    ELSE LET x == subs[i]
             in_src == _path_in_src(x)
             r == _scan_dir(f, <<>>, in_src)
         IN  IF ~r.ok THEN [st EXCEPT !.ok = FALSE,
                                      !.mapped = @ \cup {<<x, in_src>>}]
             ELSE install_expand(f, subs, i + 1,
                     [ok |-> TRUE,
                      extra_dirs |-> st.extra_dirs \o <<x>> \o
                          [k \in 1..Len(r.subdirs) |-> join(x, r.subdirs[k])],
                      extra_files |-> st.extra_files \o
                          [k \in 1..Len(r.files) |->
                              <<join(in_src, r.files[k]), join(x, r.files[k])>>],
                      mapped |-> st.mapped \cup {<<x, in_src>>}])

\* what a scan of directory rel of the target adds to extra_dirs and
\* extra_files (sync_from_target, lines 335-340 and 349-354)
sync_fold(st, rel, r) ==
    [ok |-> TRUE,
     extra_dirs |-> st.extra_dirs \o
         (IF rel \notin st.subdir_set THEN <<rel>> ELSE <<>>) \o r.subdirs,
     extra_files |-> st.extra_files \o
         [k \in 1..Len(r.files) |-> <<_path_in_src(r.files[k]), r.files[k]>>],
     subdir_set |-> st.subdir_set,
     mapped |-> st.mapped \cup
         {<<r.files[k], _path_in_src(r.files[k])>> : k \in 1..Len(r.files)}]

RECURSIVE sync_scan_new(_, _, _, _)
\* sync_from_target, lines 321-345: the loop over sync_new[i..]
sync_scan_new(f, new, i, st) ==
    IF i > Len(new) THEN st
    ELSE LET in_src == new[i][1]
             rel == new[i][2]
             parents == parents_of(dirname(rel), st.subdir_set)
             st1 == [st EXCEPT !.extra_dirs = @ \o reversed(parents),
                               !.subdir_set = @ \cup seq_set(parents)]
             in_target == join(target, rel)
             r == _scan_dir(f, rel, target)
         IN  IF isdir(f, in_target)
             THEN IF ~r.ok THEN [st1 EXCEPT !.ok = FALSE]
                  ELSE sync_scan_new(f, new, i + 1, sync_fold(st1, rel, r))
             ELSE IF exists(f, in_target)
             THEN sync_scan_new(f, new, i + 1,
                      [st1 EXCEPT !.extra_files = Append(@, <<in_src, rel>>)])
             ELSE [st1 EXCEPT !.ok = FALSE]

RECURSIVE sync_scan_explicit(_, _, _, _)
\* sync_from_target, lines 346-356: the loop over explicit_subdirs[i..]
sync_scan_explicit(f, subs, i, st) ==
    IF i > Len(subs) \/ ~st.ok THEN st
    ELSE LET rel == subs[i]
             r == _scan_dir(f, rel, target)
         IN  IF isdir(f, join(target, rel)) /\ r.ok
             THEN sync_scan_explicit(f, subs, i + 1, sync_fold(st, rel, r))
             ELSE [st EXCEPT !.ok = FALSE]

\* sync_from_target, lines 317-356
sync_scan(f, new, subs) ==
    sync_scan_explicit(f, subs, 1,
        sync_scan_new(f, new, 1,
            [ok |-> TRUE, extra_dirs |-> <<>>, extra_files |-> <<>>,
             subdir_set |-> {}, mapped |-> {}]))

---------------------------------------------------------------------------
(* The runs considered: source trees, target trees and command lines.      *)

rel_ab == <<"a", "b">>
rel_ab_c == <<"a", "b", "/", "c">>
rel_ab_c_d == <<"a", "b", "/", "c", "/", "d">>
rel_dot_b == <<".", "b">>
rel_dot_b_c == <<".", "b", "/", "c">>
rel_dot_b_c_d == <<".", "b", "/", "c", "/", "d">>
rel_b == <<"b">>
rel_b_c == <<"b", "/", "c">>
rel_b_c_d == <<"b", "/", "c", "/", "d">>
rel_hidden == <<".", "h">>

\* candidate nodes of the source tree and the kinds each may have
SrcKinds ==
    (join(work_dir, rel_ab) :> {"none", "file", "dir"}) @@
    (join(work_dir, rel_ab_c) :> {"none", "file"}) @@
    (join(work_dir, DOTFILES) :> {"none", "dir"}) @@
    (join3(work_dir, DOTFILES, rel_b) :> {"none", "file", "dir"}) @@
    (join3(work_dir, DOTFILES, rel_b_c) :> {"file"}) @@
    (join(work_dir, rel_hidden) :> {"file"})

\* candidate nodes of the target tree
TgtKinds ==
    (join(target, rel_ab) :> {"none", "file", "dir"}) @@
    (join(target, rel_ab_c) :> {"file"}) @@
    (join(target, rel_dot_b) :> {"none", "file", "dir"}) @@
    (join(target, rel_dot_b_c) :> {"file"})

\* deeper source trees, for the runs that only scan
ScanSrcKinds ==
    (join(work_dir, rel_ab) :> {"none", "file", "dir"}) @@
    (join(work_dir, rel_ab_c) :> {"none", "file", "dir"}) @@
    (join(work_dir, rel_ab_c_d) :> {"none", "file", "dir"}) @@
    (join(work_dir, DOTFILES) :> {"none", "file", "dir"}) @@
    (join3(work_dir, DOTFILES, rel_b) :> {"none", "file", "dir"}) @@
    (join3(work_dir, DOTFILES, rel_b_c) :> {"none", "dir"}) @@
    (join3(work_dir, DOTFILES, rel_b_c_d) :> {"none", "dir"}) @@
    (join(work_dir, rel_hidden) :> {"dir"})

\* the paths FILES may name
ListPaths == {rel_ab, rel_ab_c, rel_dot_b}
ScanListPaths == {rel_ab_c, rel_ab_c_d, rel_dot_b, rel_dot_b_c_d}

\* the trees over the candidates K: a node is present only in a directory,
\* and there it has one of its kinds
Trees(K) ==
    {t \in [DOMAIN K -> {"none", "file", "dir"}] :
        \A c \in DOMAIN K :
            IF Parent(c) \in DOMAIN K /\ t[Parent(c)] # "dir"
            THEN t[c] = "none" ELSE t[c] \in K[c]}

\* the filesystem holding source tree s and target tree t; a file's data is
\* its own path
MkFs(s, t) ==
    LET st == s @@ t
        present == {c \in DOMAIN st : st[c] # "none"}
    IN  [c \in {ROOT, work_dir, target} \cup present |->
            IF c \in present /\ st[c] = "file" THEN FileNode(c) ELSE DirNode]

Lists(paths, n) == UNION {[1..k -> paths] : k \in 0..n}

\* the directories of f at or below directory d
DirsUnder(f, d) ==
    {c \in DOMAIN f : f[c].kind = "dir" /\ startswith(c, d)}

InitRun(src_kinds, tgt_kinds, paths, n, orders) ==
    /\ fs \in {MkFs(s, t) : s \in Trees(src_kinds), t \in Trees(tgt_kinds)}
    /\ fs0 = fs
    /\ fs_prev = fs
    /\ unreadable \in {{}} \cup {{d} : d \in DirsUnder(fs, work_dir) \ {work_dir}}
    /\ scan_rev \in orders
    /\ file_list \in Lists(paths, n)
    /\ sync_source \in BOOLEAN
    /\ dry_run \in BOOLEAN
    /\ ow_mode \in IF sync_source THEN {PROMPT} ELSE {PROMPT, ALL, NONE}
    /\ pc = "start"
    /\ run = 1
    /\ has_explicit_files = FALSE
    /\ src_files = <<>>
    /\ put_subdirs = <<>>
    /\ explicit_subdirs = <<>>
    /\ sync_new = <<>>
    /\ scan_error = FALSE
    /\ dirs = <<>>
    /\ files = <<>>
    /\ idx = 1
    /\ overwrite = ow_mode
    /\ prompted = <<>>
    /\ mapped = {}
    /\ scan_out = [dir_path |-> <<>>, ok |-> FALSE, files |-> <<>>, subdirs |-> <<>>]
    /\ is_remote = FALSE
    /\ gitref = FALSE
    /\ pull = FALSE
    /\ git_exe = TRUE
    /\ tmp = "none"

\* the full runs: os.scandir lists in ascending order
Init == InitRun(SrcKinds, TgtKinds, ListPaths, MaxFiles, {FALSE})

---------------------------------------------------------------------------
(* main(): construction of the PutconfSource.                              *)

\* the position of main() when the handler has set up its lists
loop_start(ds, fl, dir_pc, file_pc) ==
    IF Len(ds) > 0 THEN dir_pc ELSE IF Len(fl) > 0 THEN file_pc ELSE "done"

\* the position after entry idx of a loop over list, which raised or not
loop_next(ok, list, here, after) ==
    IF ~ok THEN "error" ELSE IF idx < Len(list) THEN here ELSE after

\* the index after entry idx of a loop over list; the loop that follows
\* starts at 1
loop_index(ok, list) ==
    IF ~ok THEN idx ELSE IF idx < Len(list) THEN idx + 1 ELSE 1

\* __init__, lines 179-180, r being what _scan_contents has assigned when
\* it returned or raised.  The exception of a failed scan is caught and the
\* RuntimeError built from it is not raised: main goes on to the handler.
init_scanned(r) ==
    /\ has_explicit_files' = (Len(file_list) # 0)
    /\ src_files' = r.src_files
    /\ put_subdirs' = r.put_subdirs
    /\ explicit_subdirs' = r.explicit_subdirs
    /\ sync_new' = r.sync_new
    /\ scan_error' = ~r.ok
    /\ mapped' = mapped \cup r.mapped
    /\ pc' = IF sync_source THEN "sync" ELSE "install"

\* PutconfSource.__init__ for a local directory without --checkout and
\* --pull (lines 165-180), called from main (line 180)
PutconfSource_init ==
    /\ pc = "start"
    /\ ~(is_remote \/ gitref)
    /\ ~pull
    /\ IF ~exists(fs, work_dir) \/ ~isdir(fs, work_dir) \/ work_dir \in unreadable
       THEN /\ pc' = "error"
            /\ UNCHANGED <<has_explicit_files, src_files, put_subdirs,
                           explicit_subdirs, sync_new, scan_error, mapped>>
       ELSE init_scanned(_scan_contents(fs, file_list))
    /\ UNCHANGED <<fs, fs0, unreadable, scan_rev, file_list, sync_source,
                   dry_run, ow_mode, run, fs_prev, dirs, files, idx,
                   overwrite, prompted, scan_out>>
    /\ UNCHANGED git_vars

---------------------------------------------------------------------------
(* install_to_target.                                                      *)

\* lines 277 and 282: the chained lists, e being the result of lines 266-274
install_scanned(e) ==
    /\ mapped' = mapped \cup e.mapped
    /\ IF e.ok
       THEN /\ dirs' = put_subdirs \o e.extra_dirs
            /\ files' = src_files \o e.extra_files
            /\ pc' = loop_start(dirs', files', "install_dirs", "install_files")
       ELSE /\ pc' = "error"
            /\ UNCHANGED <<dirs, files>>

\* lines 266-274: the explicit subdirectories are scanned in the source
install_scan ==
    /\ pc = "install"
    /\ install_scanned(install_expand(fs, explicit_subdirs, 1,
            [ok |-> TRUE, extra_dirs |-> <<>>, extra_files |-> <<>>,
             mapped |-> {}]))
    /\ idx' = 1
    /\ UNCHANGED <<fs, fs0, unreadable, scan_rev, file_list, sync_source,
                   dry_run, ow_mode, run, fs_prev, has_explicit_files,
                   src_files, put_subdirs, explicit_subdirs, sync_new,
                   scan_error, overwrite, prompted, scan_out>>
    /\ UNCHANGED git_vars

\* the end of an iteration of a loop over directories, m being the result
\* of _do_mkdir
mkdir_step(m, dir_pc, file_pc) ==
    /\ fs' = m.fs
    /\ pc' = loop_next(m.ok, dirs, dir_pc,
                       IF Len(files) > 0 THEN file_pc ELSE "done")
    /\ idx' = loop_index(m.ok, dirs)

\* lines 277-279: one iteration of the loop that creates the directories
install_mkdir ==
    /\ pc = "install_dirs"
    /\ mkdir_step(_do_mkdir(fs, join(target, dirs[idx]), dry_run),
                  "install_dirs", "install_files")
    /\ UNCHANGED <<fs0, unreadable, scan_rev, file_list, sync_source, dry_run,
                   ow_mode, run, fs_prev, has_explicit_files, src_files,
                   put_subdirs, explicit_subdirs, sync_new, scan_error, dirs,
                   files, overwrite, prompted, mapped, scan_out>>
    /\ UNCHANGED git_vars

\* the file entry at idx needs an answer from input()
asks ==
    /\ pc = "install_files"
    /\ ~isdir(fs, join(target, files[idx][2]))
    /\ exists(fs, join(target, files[idx][2]))
    /\ overwrite = PROMPT
    /\ ~dry_run

bad_answers == Len(SelectSeq(prompted, LAMBDA s : s = "other"))

\* the end of an iteration of a loop over files, r being the result of the
\* copy, if any
file_step(r, file_pc) ==
    /\ fs' = r.fs
    /\ pc' = loop_next(r.ok, files, file_pc, "done")
    /\ idx' = loop_index(r.ok, files)

\* line 289: overwrite = _prompt_to_overwrite(...), q being its result
prompt_step(q) ==
    /\ file_step(q, "install_files")
    /\ overwrite' = q.res

\* lines 284-298: the entry (src_path, rel) whose destination is abs_path
install_one(src_path, abs_path) ==
    IF isdir(fs, abs_path)
    THEN file_step(Raise(fs), "install_files") /\ UNCHANGED <<overwrite, prompted>>
    ELSE IF exists(fs, abs_path) /\ overwrite = PROMPT
    THEN IF dry_run
         THEN /\ prompt_step(_prompt_to_overwrite(fs, src_path, abs_path, dry_run, ""))
              /\ UNCHANGED prompted
         ELSE \E s \in {"y", "n", "all", "none"} :
                /\ prompt_step(_prompt_to_overwrite(fs, src_path, abs_path, dry_run, s))
                /\ prompted' = Append(prompted, s)
    ELSE IF exists(fs, abs_path) /\ overwrite = NONE
    THEN file_step(Done(fs), "install_files") /\ UNCHANGED <<overwrite, prompted>>
    ELSE /\ file_step(_do_copy(fs, src_path, abs_path, dry_run), "install_files")
         /\ UNCHANGED <<overwrite, prompted>>

\* lines 282-298: one iteration of the loop that copies the files; a
\* prompt is answered y, n, all or none
install_file ==
    /\ pc = "install_files"
    /\ install_one(files[idx][1], join(target, files[idx][2]))
    /\ UNCHANGED <<fs0, unreadable, scan_rev, file_list, sync_source, dry_run,
                   ow_mode, run, fs_prev, has_explicit_files, src_files,
                   put_subdirs, explicit_subdirs, sync_new, scan_error, dirs,
                   files, mapped, scan_out>>
    /\ UNCHANGED git_vars

\* lines 48-65: input() returns something else, and the prompt is repeated
prompt_again ==
    /\ asks
    /\ bad_answers < MaxBad
    /\ prompted' = Append(prompted, "other")
    /\ UNCHANGED <<fs, fs0, unreadable, scan_rev, file_list, sync_source,
                   dry_run, ow_mode, pc, run, fs_prev, has_explicit_files,
                   src_files, put_subdirs, explicit_subdirs, sync_new,
                   scan_error, dirs, files, idx, overwrite, mapped, scan_out>>
    /\ UNCHANGED git_vars

---------------------------------------------------------------------------
(* sync_from_target.                                                       *)

\* .dotfiles is created before the entries are looked up in the target
sync_scanned_eager(e, m) ==
    /\ mapped' = mapped \cup e.mapped
    /\ fs' = m.fs
    /\ IF e.ok
       THEN /\ dirs' = e.extra_dirs
            /\ files' = e.extra_files \o src_files
            /\ pc' = IF m.ok
                     THEN loop_start(dirs', files', "sync_dirs", "sync_files")
                     ELSE "error"
       ELSE /\ pc' = "error"
            /\ UNCHANGED <<dirs, files>>

\* lines 359-361 and the chained list of line 366, e being the result of
\* lines 317-356 and m that of creating .dotfiles
sync_scanned(e, m) ==
    /\ mapped' = mapped \cup e.mapped
    /\ IF e.ok
       THEN /\ fs' = m.fs
            /\ dirs' = e.extra_dirs
            /\ files' = e.extra_files \o src_files
            /\ pc' = IF m.ok
                     THEN loop_start(dirs', files', "sync_dirs", "sync_files")
                     ELSE "error"
       ELSE /\ pc' = "error"
            /\ UNCHANGED <<fs, dirs, files>>

\* lines 359-361: .dotfiles is created in the source unless it is a directory
sync_mkdir_dotfiles(f, dotfile_dir, dry) ==
    IF ~isdir(f, dotfile_dir) THEN _do_mkdir(f, dotfile_dir, dry) ELSE Done(f)

\* lines 307-361: with a file list, sync_new and explicit_subdirs are
\* scanned in the target, then .dotfiles is created in the source
sync_begin ==
    /\ pc = "sync"
    /\ IF has_explicit_files
       THEN sync_scanned(sync_scan(fs, sync_new, explicit_subdirs),
                         sync_mkdir_dotfiles(fs, join(work_dir, DOTFILES), dry_run))
       ELSE /\ dirs' = <<>>
            /\ files' = src_files
            /\ pc' = loop_start(dirs', files', "sync_dirs", "sync_files")
            /\ UNCHANGED <<fs, mapped>>
    /\ idx' = 1
    /\ UNCHANGED <<fs0, unreadable, scan_rev, file_list, sync_source, dry_run,
                   ow_mode, run, fs_prev, has_explicit_files, src_files,
                   put_subdirs, explicit_subdirs, sync_new, scan_error,
                   overwrite, prompted, scan_out>>
    /\ UNCHANGED git_vars

\* lines 362-363: one iteration of the loop that creates the directories
sync_mkdir ==
    /\ pc = "sync_dirs"
    /\ mkdir_step(_do_mkdir(fs, _path_in_src(dirs[idx]), dry_run),
                  "sync_dirs", "sync_files")
    /\ mapped' = mapped \cup {<<dirs[idx], _path_in_src(dirs[idx])>>}
    /\ UNCHANGED <<fs0, unreadable, scan_rev, file_list, sync_source, dry_run,
                   ow_mode, run, fs_prev, has_explicit_files, src_files,
                   put_subdirs, explicit_subdirs, sync_new, scan_error, dirs,
                   files, overwrite, prompted, scan_out>>
    /\ UNCHANGED git_vars

\* a file missing from the target is skipped with a file list too
sync_one_lenient(f, in_src, in_target, explicit, dry) ==
    IF isdir(f, in_target) THEN Raise(f)
    ELSE IF exists(f, in_target) THEN _do_copy(f, in_target, in_src, dry)
    ELSE Done(f)

\* lines 366-378, one iteration: what becomes of the entry (in_src, rel)
sync_one(f, in_src, in_target, explicit, dry) ==
    IF isdir(f, in_target) THEN Raise(f)
    ELSE IF exists(f, in_target) THEN _do_copy(f, in_target, in_src, dry)
    ELSE IF explicit THEN Raise(f)
    ELSE Done(f)

\* lines 366-378: one iteration of the loop that copies the files back
sync_file ==
    /\ pc = "sync_files"
    /\ file_step(sync_one(fs, files[idx][1], join(target, files[idx][2]),
                          has_explicit_files, dry_run), "sync_files")
    /\ UNCHANGED <<fs0, unreadable, scan_rev, file_list, sync_source, dry_run,
                   ow_mode, run, fs_prev, has_explicit_files, src_files,
                   put_subdirs, explicit_subdirs, sync_new, scan_error, dirs,
                   files, overwrite, prompted, mapped, scan_out>>
    /\ UNCHANGED git_vars

---------------------------------------------------------------------------
(* The command is given again, and _scan_dir on its own.                   *)

\* main() is started again with the same command line after an install
\* with --overwrite that ended without an error
main_again ==
    /\ pc = "done"
    /\ ~sync_source
    /\ ow_mode = ALL
    /\ run < MaxRuns
    /\ pc' = "start"
    /\ run' = run + 1
    /\ fs_prev' = fs
    /\ has_explicit_files' = FALSE
    /\ src_files' = <<>>
    /\ put_subdirs' = <<>>
    /\ explicit_subdirs' = <<>>
    /\ sync_new' = <<>>
    /\ scan_error' = FALSE
    /\ dirs' = <<>>
    /\ files' = <<>>
    /\ idx' = 1
    /\ overwrite' = ow_mode
    /\ prompted' = <<>>
    /\ mapped' = {}
    /\ UNCHANGED <<fs, fs0, unreadable, scan_rev, file_list, sync_source,
                   dry_run, ow_mode, scan_out>>
    /\ UNCHANGED git_vars

\* _scan_dir(dir_path, work_dir) is called for a directory of the source
scan_dir_call ==
    /\ pc = "start"
    /\ \E d \in DirsUnder(fs, work_dir) \ {work_dir} :
          LET dir_path == SubSeq(d, Len(work_dir) + 2, Len(d))
          IN  scan_out' = [dir_path |-> dir_path] @@ _scan_dir(fs, dir_path, work_dir)
    /\ pc' = "scanned"
    /\ UNCHANGED <<fs, fs0, unreadable, scan_rev, file_list, sync_source,
                   dry_run, ow_mode, run, fs_prev, has_explicit_files,
                   src_files, put_subdirs, explicit_subdirs, sync_new,
                   scan_error, dirs, files, idx, overwrite, prompted, mapped>>
    /\ UNCHANGED git_vars

---------------------------------------------------------------------------
(* __init__ with a temporary checkout (lines 142-162), and the end of       *)
(* main().  In these runs work_dir is the name of the temporary directory.  *)

\* the variables __init__ and the handlers do not assign
given == <<fs0, unreadable, scan_rev, file_list, sync_source, dry_run,
           ow_mode, run, fs_prev, is_remote, gitref, pull, git_exe>>
\* the lists of the PutconfSource
source_lists == <<has_explicit_files, src_files, put_subdirs,
                  explicit_subdirs, sync_new, scan_error, mapped>>
\* the state of the running handler
handler_vars == <<dirs, files, idx, overwrite, prompted, scan_out>>

\* the trees a clone, a checkout or a pull may leave in work_dir; the
\* hidden top-level directory stands for .git
TmpSrcKinds ==
    (join(work_dir, rel_ab) :> {"dir"}) @@
    (join(work_dir, rel_ab_c) :> {"none", "file"}) @@
    (join(work_dir, DOTFILES) :> {"dir"}) @@
    (join3(work_dir, DOTFILES, rel_b) :> {"file"}) @@
    (join(work_dir, rel_hidden) :> {"dir"})

TmpTgtKinds ==
    (join(target, rel_ab) :> {"none", "dir"}) @@
    (join(target, rel_ab_c) :> {"file"}) @@
    (join(target, rel_dot_b) :> {"none", "file", "dir"})

TmpListPaths == {rel_ab_c, rel_dot_b}

\* f without directory d and all it holds (shutil.rmtree)
Without(f, d) ==
    [c \in {x \in DOMAIN f : x # d /\ ~startswith(x, d \o <<"/">>)} |-> f[c]]

\* f with directory d added, empty (mkdtemp)
WithDir(f, d) ==
    [c \in DOMAIN f \cup {d} |-> IF c = d THEN DirNode ELSE f[c]]

\* f with the contents of work_dir replaced by tree s (git clone into the
\* empty directory, git checkout, git pull)
Worktree(f, s) ==
    LET kept == {c \in DOMAIN f : ~startswith(c, work_dir \o <<"/">>)}
        present == {c \in DOMAIN s : s[c] # "none"}
    IN  [c \in kept \cup present |->
            IF c \notin present THEN f[c]
            ELSE IF s[c] = "file" THEN FileNode(c) ELSE DirNode]

\* the directory is left behind
finalize_missing(f, t) == f

\* the cleanup of the tempfile.TemporaryDirectory held by self.tmp, which
\* runs when the object is dropped, at the latest when the interpreter
\* exits: the directory and its contents are removed
finalize(f, t) == IF t = "live" THEN Without(f, work_dir) ELSE f

\* lines 142-148: git is needed, and the temporary directory is made
tmp_create ==
    /\ pc = "start"
    /\ is_remote \/ gitref
    /\ IF ~git_exe
       THEN pc' = "error" /\ UNCHANGED <<fs, tmp>>
       ELSE \E made \in BOOLEAN :
               IF made
               THEN /\ fs' = WithDir(fs, work_dir)
                    /\ tmp' = "live"
                    /\ pc' = "clone"
               ELSE pc' = "error" /\ UNCHANGED <<fs, tmp>>
    /\ UNCHANGED <<given, source_lists, handler_vars>>

\* lines 150-154: git clone path work_dir
git_clone ==
    /\ pc = "clone"
    /\ \/ /\ pc' = "error"
          /\ fs' = fs
       \/ /\ \E s \in Trees(TmpSrcKinds) : fs' = Worktree(fs, s)
          /\ pc' = IF pull THEN "pull" ELSE IF gitref THEN "checkout" ELSE "scan"
    /\ UNCHANGED <<given, source_lists, handler_vars, tmp>>

\* line 157 and _git_pull: `not is_remote == "file"` is true of a bool, so
\* the pull is run for every source when pull is set
git_pull ==
    /\ pc = "pull"
    /\ \/ pc' = "error"
       \/ pc' = IF gitref THEN "checkout" ELSE "scan"
    /\ UNCHANGED <<given, source_lists, handler_vars, tmp, fs>>

\* lines 159-162: git checkout gitref
git_checkout ==
    /\ pc = "checkout"
    /\ \/ /\ pc' = "error"
          /\ fs' = fs
       \/ /\ \E s \in Trees(TmpSrcKinds) : fs' = Worktree(fs, s)
          /\ pc' = "scan"
    /\ UNCHANGED <<given, source_lists, handler_vars, tmp>>

\* lines 178-180 after a clone
tmp_scan ==
    /\ pc = "scan"
    /\ init_scanned(_scan_contents(fs, file_list))
    /\ UNCHANGED <<given, handler_vars, tmp, fs>>

\* f is the source directory after git pull
local_pulled(f) ==
    /\ fs' = f
    /\ init_scanned(_scan_contents(f, file_list))

\* lines 164-180 for a local directory with --pull
local_pull ==
    /\ pc = "start"
    /\ ~(is_remote \/ gitref)
    /\ pull
    /\ IF ~isdir(fs, work_dir) \/ work_dir \in unreadable \/ ~git_exe
       THEN pc' = "error" /\ UNCHANGED <<fs, source_lists>>
       ELSE \/ pc' = "error" /\ UNCHANGED <<fs, source_lists>>
            \/ \E s \in Trees(TmpSrcKinds) : local_pulled(Worktree(fs, s))
    /\ UNCHANGED <<given, handler_vars, tmp>>

\* main() ends: it returns after the handler, or prints the error and calls
\* sys.exit(1) (lines 179-192); the PutconfSource is dropped and the
\* interpreter exits
main_exit ==
    /\ pc \in {"done", "error"}
    /\ pc' = IF pc = "done" THEN "exit0" ELSE "exit1"
    /\ fs' = finalize(fs, tmp)
    /\ tmp' = IF tmp = "live" THEN "removed" ELSE tmp
    /\ UNCHANGED <<given, source_lists, handler_vars>>

---------------------------------------------------------------------------
(* Specifications.                                                         *)

Next ==
    \/ PutconfSource_init
    \/ install_scan
    \/ install_mkdir
    \/ install_file
    \/ prompt_again
    \/ sync_begin
    \/ sync_mkdir
    \/ sync_file
    \/ main_again

Spec == Init /\ [][Next]_vars

\* the scan alone, on deeper trees and longer lists, os.scandir listing in
\* either order and every directory being readable
InitScan ==
    /\ InitRun(ScanSrcKinds, [c \in {} |-> {}], ScanListPaths, MaxScanFiles,
               BOOLEAN)
    /\ unreadable = {}
    /\ ~sync_source
    /\ ~dry_run
    /\ ow_mode = PROMPT

NextScan ==
    \/ PutconfSource_init
    \/ scan_dir_call

SpecScan == InitScan /\ [][NextScan]_vars

\* the runs with git: every command line of main() that reaches __init__
\* (main refuses -S with a remote source, lines 162-164), on a target tree
\* and, for a local source, a source tree
InitTmp ==
    /\ is_remote \in BOOLEAN
    /\ gitref \in BOOLEAN
    /\ pull \in BOOLEAN
    /\ git_exe \in BOOLEAN
    /\ sync_source \in BOOLEAN
    /\ ~(sync_source /\ is_remote)
    /\ fs \in {IF is_remote \/ gitref THEN Without(MkFs(s, t), work_dir)
                                     ELSE MkFs(s, t) :
                  s \in Trees(TmpSrcKinds), t \in Trees(TmpTgtKinds)}
    /\ fs0 = fs
    /\ fs_prev = fs
    /\ unreadable \in {{}, {join(work_dir, rel_ab)}}
    /\ scan_rev = FALSE
    /\ file_list \in Lists(TmpListPaths, MaxFiles)
    /\ dry_run = FALSE
    /\ ow_mode \in IF sync_source THEN {PROMPT} ELSE {PROMPT, ALL}
    /\ pc = "start"
    /\ run = 1
    /\ has_explicit_files = FALSE
    /\ src_files = <<>>
    /\ put_subdirs = <<>>
    /\ explicit_subdirs = <<>>
    /\ sync_new = <<>>
    /\ scan_error = FALSE
    /\ dirs = <<>>
    /\ files = <<>>
    /\ idx = 1
    /\ overwrite = ow_mode
    /\ prompted = <<>>
    /\ mapped = {}
    /\ scan_out = [dir_path |-> <<>>, ok |-> FALSE, files |-> <<>>, subdirs |-> <<>>]
    /\ tmp = "none"

NextTmp ==
    \/ tmp_create
    \/ git_clone
    \/ git_pull
    \/ git_checkout
    \/ tmp_scan
    \/ PutconfSource_init
    \/ local_pull
    \/ install_scan
    \/ install_mkdir
    \/ install_file
    \/ prompt_again
    \/ sync_begin
    \/ sync_mkdir
    \/ sync_file
    \/ main_exit

\* main() has not ended; a step of NextTmp is possible exactly then
Running == pc \notin {"exit0", "exit1"}

\* main() runs on until it ends: git returns, and input() returns an
\* answer.  This is WF_vars(NextTmp), with ENABLED <<NextTmp>>_vars written
\* as the state predicate Running it is equal to.
Fairness == []<>(~Running) \/ []<><<NextTmp>>_vars

SpecTmp == InitTmp /\ [][NextTmp]_vars /\ Fairness

---------------------------------------------------------------------------
(* Properties.                                                             *)

\* PathMapper.toSourcePath as the specification states it
toSourcePath(p) ==
    IF startswith(p, <<".">>) THEN join3(work_dir, DOTFILES, slice1(p))
    ELSE join(work_dir, p)

\* C1: every mapping of a target-relative path p to its source path, by
\* the inline code of _scan_from_list or by _path_in_src, gives
\* work_dir/.dotfiles/<p without its dot> when p begins with a dot and
\* work_dir/<p> otherwise.
C1_MappingFollowsDotfileConvention ==
    \A m \in mapped : m[2] = toSourcePath(m[1])

RECURSIVE ancestors(_)
\* the proper ancestor directories of the relative path d
ancestors(d) ==
    IF Len(dirname(d)) = 0 THEN {}
    ELSE {dirname(d)} \cup ancestors(dirname(d))

\* every ancestor of an entry that lies below scope (anywhere, when scope
\* is empty) stands at a strictly earlier index
ParentsFirst(seq, scope) ==
    \A i \in 1..Len(seq) : \A a \in ancestors(seq[i]) :
        (scope = <<>> \/ startswith(a, scope \o <<"/">>))
            => \E j \in 1..(i - 1) : seq[j] = a

\* C2: in the subdirs of _scan_dir, and in put_subdirs after _scan_all and
\* after the ancestor walk of _scan_from_list, whatever the order of the
\* supplied paths, every proper ancestor of an entry inside the scanned
\* scope stands at a strictly earlier index.
C2_ParentBeforeChild ==
    /\ (pc = "scanned" /\ scan_out.ok)
           => ParentsFirst(scan_out.subdirs, scan_out.dir_path)
    /\ pc \in {"install", "sync"} => ParentsFirst(put_subdirs, <<>>)

\* C2 witness: the deeper path is supplied first and its two ancestors come
\* out root first.
C2_Witness ==
    /\ pc = "install"
    /\ file_list = <<rel_ab_c_d, rel_ab_c>>
    /\ put_subdirs = <<rel_ab, rel_ab_c>>

\* the file entries of the source once it is entirely readable: relative
\* target path and data, for a full scan
ExpectedFullScan(f) ==
    LET under(c) == SubSeq(c, Len(work_dir) + 2, Len(c))
        dot_dir == join(work_dir, DOTFILES)
        in_dot(c) == SubSeq(c, Len(dot_dir) + 2, Len(c))
        src == {c \in DOMAIN f : f[c].kind = "file" /\ startswith(c, work_dir \o <<"/">>)}
    IN  {<<join(target, under(c)), f[c].data>> :
            c \in {x \in src : ~startswith(under(x), <<".">>)}}
        \cup
        {<<join(target, <<".">> \o in_dot(c)), f[c].data>> :
            c \in {x \in src : startswith(x, dot_dir \o <<"/">>)}}

\* the files of the target tree and their data
TargetFiles(f) ==
    {<<c, f[c].data>> :
        c \in {x \in DOMAIN f : f[x].kind = "file" /\ startswith(x, target \o <<"/">>)}}

FullInstallIntoEmpty ==
    /\ run = 1
    /\ ~sync_source
    /\ ~dry_run
    /\ file_list = <<>>
    /\ unreadable = {}
    /\ TargetFiles(fs0) = {}
    /\ \A c \in DOMAIN fs0 : ~startswith(c, target \o <<"/">>)

\* C3: a full-scan install of a readable source into an empty target ends
\* without error, and the target then holds exactly the files under the
\* non-dot top-level entries at the same relative path and the files under
\* .dotfiles with a dot prepended, each with the data of its source file;
\* other top-level dot entries add nothing.
C3_FullInstallCreatesExactly ==
    (FullInstallIntoEmpty /\ pc \in {"done", "error"})
        => /\ pc = "done"
           /\ TargetFiles(fs) = ExpectedFullScan(fs0)

\* C3 witness: the source holds ab/c, .dotfiles/b and the hidden .h; the
\* target ends with ab/c and .b only.
C3_Witness ==
    /\ FullInstallIntoEmpty
    /\ pc = "done"
    /\ isfile(fs0, join(work_dir, rel_hidden))
    /\ TargetFiles(fs) =
          {<<join(target, rel_ab_c), join(work_dir, rel_ab_c)>>,
           <<join(target, rel_dot_b), join3(work_dir, DOTFILES, rel_b)>>}

\* number of entries of seq that satisfy Is
Count(seq, Is(_)) == Cardinality({i \in 1..Len(seq) : Is(seq[i])})

\* C4: after _scan_from_list every supplied path stands, once per time it
\* was supplied, in exactly one of explicit_subdirs (its source path is a
\* directory), src_files (a file) and sync_new (it does not exist), and in
\* neither of the other two.
C4_ExplicitListClassification ==
    (pc = "install" /\ has_explicit_files) =>
        \A p \in seq_set(file_list) :
            LET n == Count(file_list, LAMBDA x : x = p)
                src == toSourcePath(p)
            IN  /\ Count(explicit_subdirs, LAMBDA x : x = p)
                       = IF isdir(fs, src) THEN n ELSE 0
                /\ Count(src_files, LAMBDA e : e = <<src, p>>)
                       = IF isfile(fs, src) THEN n ELSE 0
                /\ Count(sync_new, LAMBDA e : e = <<src, p>>)
                       = IF ~exists(fs, src) THEN n ELSE 0
                /\ Count(src_files, LAMBDA e : e[2] = p)
                   + Count(sync_new, LAMBDA e : e[2] = p)
                   + Count(explicit_subdirs, LAMBDA x : x = p) = n

\* C4 witness: of two supplied paths one is a directory of the source and
\* the other is absent from it.
C4_Witness ==
    /\ pc = "install"
    /\ file_list = <<rel_dot_b, rel_ab_c>>
    /\ explicit_subdirs = <<rel_dot_b>>
    /\ src_files = <<>>
    /\ sync_new = <<<<join(work_dir, rel_ab_c), rel_ab_c>>>>

\* the data of the file at path p
data(f, p) == f[canon(f, p)].data

\* what C5 asks of one step of the loop over the files: src_path is to be
\* installed at abs_path
PromptStep(src_path, abs_path) ==
    LET conflict == isfile(fs, abs_path)
        overwritten == /\ pc' # "error"
                       /\ isfile(fs', abs_path)
                       /\ data(fs', abs_path) = data(fs, src_path)
        skipped == pc' # "error" /\ fs' = fs
        last == prompted'[Len(prompted')]
    IN  /\ "all" \in seq_set(prompted)
            => prompted' = prompted /\ (conflict => overwritten)
        /\ "none" \in seq_set(prompted)
            => prompted' = prompted /\ (conflict => skipped)
        /\ prompted' # prompted =>
            /\ conflict
            /\ last = "y" => overwritten /\ overwrite' = PROMPT
            /\ last = "n" => skipped /\ overwrite' = PROMPT
            /\ last = "all" => overwritten /\ overwrite' = ALL
            /\ last = "none" => skipped /\ overwrite' = NONE

\* C5: in a run of install_to_target started with PROMPT, once a prompt
\* was answered all every later conflicting file is overwritten and nothing
\* is asked again; once one was answered none every later conflicting file
\* is left as it is and nothing is asked again; the answers y and n
\* overwrite or keep the current file and leave the policy PROMPT.
C5_PromptAnswerSetsPolicy ==
    [][(pc = "install_files" /\ ow_mode = PROMPT)
          => PromptStep(files[idx][1], join(target, files[idx][2]))]_vars

\* C5 witness: two files conflict, the only answer given is all, and both
\* are overwritten.
C5_Witness ==
    /\ pc = "done"
    /\ ow_mode = PROMPT
    /\ prompted = <<"all">>
    /\ isfile(fs0, join(target, rel_ab_c))
    /\ isfile(fs0, join(target, rel_dot_b))
    /\ isfile(fs, join(target, rel_ab_c))
    /\ data(fs, join(target, rel_ab_c)) = join(work_dir, rel_ab_c)
    /\ data(fs, join(target, rel_dot_b)) = join3(work_dir, DOTFILES, rel_b)

\* C6: a sync with a file list that ends without error found every path of
\* src_files and of sync_new in the target (a missing one is fatal); in a
\* full-scan sync a file of the source with no counterpart in the target is
\* passed over, nothing being copied and no error raised.
C6_SyncMissingInTarget ==
    /\ [](( sync_source /\ has_explicit_files /\ pc = "done") =>
            /\ \A k \in 1..Len(src_files) :
                   exists(fs, join(target, src_files[k][2]))
            /\ \A k \in 1..Len(sync_new) :
                   exists(fs, join(target, sync_new[k][2])))
    /\ [][(pc = "sync_files" /\ ~has_explicit_files
              /\ ~exists(fs, join(target, files[idx][2])))
            => (fs' = fs /\ pc' # "error")]_vars

\* C6 witness: the one named path is a file of the source, the target has
\* nothing of that name, and the sync has ended with an error.
C6_Witness ==
    /\ sync_source
    /\ has_explicit_files
    /\ pc = "error"
    /\ Len(src_files) = 1
    /\ files = src_files
    /\ ~exists(fs, join(target, src_files[1][2]))

\* C7: when the scan of the source has raised, the construction has failed
\* and nothing was created or copied in this run.
C7_ScanErrorStopsTheRun ==
    scan_error => (pc = "error" /\ fs = fs_prev)

\* C8: an install that ends without error met no type conflict: no
\* directory it was to create was a regular file of the target, and no
\* destination of a file was a directory of the target.
C8_TypeConflictIsFatal ==
    (~sync_source /\ run = 1 /\ pc = "done") =>
        /\ \A k \in 1..Len(dirs) : ~isfile(fs0, join(target, dirs[k]))
        /\ \A k \in 1..Len(files) : ~isdir(fs0, join(target, files[k][2]))

\* C9: with dry_run the source tree and the target tree stay as they were,
\* in an install under any policy and in a sync with or without a file
\* list.
C9_DryRunChangesNothing ==
    dry_run => fs = fs0

\* C9 witness: a dry install under PROMPT has gone through a conflicting
\* file and ended.
C9_Witness ==
    /\ dry_run
    /\ ~sync_source
    /\ ow_mode = PROMPT
    /\ pc = "done"
    /\ \E k \in 1..Len(files) : isfile(fs0, join(target, files[k][2]))

\* C10: when an install with --overwrite has ended without error, the same
\* command given again ends without error too and leaves the filesystem as
\* the run before left it.
C10_InstallTwiceSameTree ==
    (run > 1 /\ pc \in {"done", "error"}) => (pc = "done" /\ fs = fs_prev)

\* C10 witness: the second run has ended, after a first one that created a
\* directory and overwrote a file.
C10_Witness ==
    /\ run = 2
    /\ pc = "done"
    /\ ~dry_run
    /\ Len(dirs) > 0
    /\ \E k \in 1..Len(files) : isfile(fs0, join(target, files[k][2]))
    /\ fs # fs0

\* what C12 asks of the lists of an install for the named directory x,
\* r being the scan of x at its place in the source
ExpandedFrom(x, r) ==
    /\ x \in seq_set(dirs)
    /\ \A k \in 1..Len(r.subdirs) : join(x, r.subdirs[k]) \in seq_set(dirs)
    /\ \A k \in 1..Len(r.files) :
           <<join(toSourcePath(x), r.files[k]), join(x, r.files[k])>>
               \in seq_set(files)

\* the named directories of the source can all be scanned
ExplicitSubdirsReadable ==
    \A k \in 1..Len(explicit_subdirs) :
        _scan_dir(fs0, <<>>, toSourcePath(explicit_subdirs[k])).ok

\* C12: once install_to_target has scanned the named directories, each
\* named path x that is a directory of the source, with or without a
\* leading dot, has target/x and target/x/d for each of its subdirectories d
\* among the directories to create, and a copy from <source of x>/f to
\* target/x/f for each of its files f among the files to copy; the scan is
\* rooted at the source location the dotfile mapping gives x and does not
\* fail when that directory can be read.
C12_ExplicitSubdirScannedInSource ==
    (~sync_source /\ run = 1 /\ pc \notin {"start", "install"}
        /\ ExplicitSubdirsReadable)
    => \A k \in 1..Len(explicit_subdirs) :
           ExpandedFrom(explicit_subdirs[k],
               _scan_dir(fs0, <<>>, toSourcePath(explicit_subdirs[k])))

\* an entry of sync_new is absent from the target, or an entry of
\* explicit_subdirs is not a directory of the target
SyncLookupFails ==
    \/ \E k \in 1..Len(sync_new) : ~exists(fs0, join(target, sync_new[k][2]))
    \/ \E k \in 1..Len(explicit_subdirs) :
           ~isdir(fs0, join(target, explicit_subdirs[k]))

\* C13: a sync with a file list in which a pending path is absent from the
\* target, or a named directory of the source is not a directory of the
\* target, ends with an error before anything is changed: no directory has
\* been created and no file copied, .dotfiles included.
C13_SyncLooksUpBeforeItWrites ==
    (sync_source /\ has_explicit_files /\ SyncLookupFails
        /\ pc \notin {"start", "sync"})
    => (pc = "error" /\ fs = fs0)

\* C13 witness: a real sync of one pending path that the target does not
\* have has failed, in a source without .dotfiles.
C13_Witness ==
    /\ sync_source
    /\ has_explicit_files
    /\ ~dry_run
    /\ pc = "error"
    /\ Len(sync_new) = 1
    /\ ~exists(fs0, join(target, sync_new[1][2]))
    /\ ~exists(fs0, join(work_dir, DOTFILES))

\* main() has gone past the scan of the source and has not ended
Scanned ==
    pc \in {"install", "install_dirs", "install_files", "sync", "sync_dirs",
            "sync_files", "done"}

\* C11: with a remote source or a requested revision the temporary
\* directory exists whenever the source has been scanned, and once made it
\* is in the end removed with all it holds, however the run ends: after the
\* handler, after a failed clone, pull or checkout, after a scanning error,
\* after a fatal error of install or sync.  With a local directory and no
\* revision there is never a temporary directory and the directory given
\* stays in place.
C11_TemporaryCheckoutRemoved ==
    /\ []((is_remote \/ gitref) /\ Scanned
             => tmp = "live" /\ isdir(fs, work_dir))
    /\ (tmp = "live") ~> (tmp = "removed" /\ ~exists(fs, work_dir))
    /\ [](~(is_remote \/ gitref) => tmp = "none" /\ isdir(fs, work_dir))

\* C11 witness: an install from a checkout has created a directory of the
\* target, has then failed on a file, and main() has ended with sys.exit(1)
\* and the temporary directory gone.
C11_Witness ==
    /\ gitref
    /\ pc = "exit1"
    /\ tmp = "removed"
    /\ ~exists(fs, work_dir)
    /\ Len(files) > 0
    /\ fs # fs0

====
